---- MODULE Spec2Model ----
(***************************************************************************)
(* Model of the stixmarx marking overlay engine: the MarkingContainer      *)
(* (container.py), the per-object marking API (api/__init__.py), the tree  *)
(* navigator (navigator.py), the XPath serializer (serializer.py) and the  *)
(* ingest side (markingmap.py, parser.py).                                 *)
(*                                                                         *)
(* The entity tree is the one the unit tests build:                        *)
(*   package                                                               *)
(*     incident            Incident(title="Test"), has a Handling field    *)
(*       incident_title    the str "Test"                                  *)
(*       indicator         Indicator(title="Test"), a related indicator    *)
(*         indicator_id    the str "Test" (value-equal to incident_title)  *)
(*     observable          added with package.add_observable() during the  *)
(*                         session; has no Handling field                  *)
(* A marking record (MarkingSpecification) is identified by its payload.   *)
(***************************************************************************)
EXTENDS Integers, Sequences, FiniteSets, TLC

\* Number of container calls in one session.
MaxOps == 3

None == "None"
Markings == {"red", "amber"}
\* A marking record whose controlled_structure is already set, e.g. one
\* taken from a parsed document.
Resolved == "resolved"
Records == Markings \cup {Resolved}
\* A second record built from the marking structure of "red": another object
\* with an equal payload and no target.
Copy == "red_copy"
\* The record objects a caller can hold.
Held == Records \cup {Copy}
\* The marking structures of a record.
Payload(r) == IF r = Copy THEN "red" ELSE r

Package == "package"
Entities == {"package", "incident", "indicator", "observable"}
Scalars == {"incident_title", "indicator_id"}
Nodes == Entities \cup Scalars
\* Nodes that the application adds to the package during the session.
LateNodes == {"observable"}

Parent ==
  [n \in Nodes \ {Package} |->
     CASE n = "incident" -> "package"
       [] n = "incident_title" -> "incident"
       [] n = "indicator" -> "incident"
       [] n = "indicator_id" -> "indicator"
       [] n = "observable" -> "package"]

\* Field values in the order Navigator._iter_fields yields them.
Children ==
  [n \in Nodes |->
     CASE n = "package" -> <<"incident", "observable">>
       [] n = "incident" -> <<"incident_title", "indicator">>
       [] n = "indicator" -> <<"indicator_id">>
       [] OTHER -> <<>>]

\* The Python value held by a scalar field.
FieldValue == [n \in Scalars |-> "Test"]

\* Entities whose class declares a `handling` attribute.
HasHandling == {"incident", "indicator"}

\* The list field of the parent that holds the node.
FieldList ==
  [n \in Nodes \ {Package} |->
     CASE n = "incident" -> <<"incident">>
       [] n = "indicator" -> <<"indicator">>
       [] n = "observable" -> <<"observable">>
       [] OTHER -> <<>>]

\* attrmap.xmlfield(parent, field name): the XML selector of the field that
\* holds the node ("Title", "@id", ...).
Tok(t, name, pos) == [t |-> t, name |-> name, pos |-> pos]

xmlfield ==
  [n \in Nodes \ {Package} |->
     CASE n = "incident" -> Tok("elem", "Incident", 0)
       [] n = "incident_title" -> Tok("elem", "Title", 0)
       [] n = "indicator" -> Tok("elem", "Related_Indicator", 0)
       [] n = "indicator_id" -> Tok("attr", "id", 0)
       [] n = "observable" -> Tok("elem", "Observable", 0)]

VARIABLES
  global_markings,  \* MarkingContainer._global_markings: list of markings
  null_markings,    \* MarkingContainer._null_markings: list of markings
  field_markings,   \* MarkingContainer._field_markings, in insertion order:
                    \* entries [key, obj, marks], marks a list of <<m, d>>
  datamarkings,     \* __datamarkings__ of the object at each tree location
  coerced,          \* scalar locations holding a stixmarx.api.types wrapper
  attached,         \* late nodes that have been added to the package
  handling,         \* embedded marking records per handling container
  containers,       \* handling containers (Marking objects) that exist
  controlled_structure,  \* controlled_structure of each caller-held record
  parsed,           \* __datamarkings__ of the re-parsed document, or None
  alternative_id,   \* Indicator.alternative_id, a list of strings: items
                    \* [value, xml, marks, cast], xml the markings the index
                    \* of a parsed document holds for the item's element
  last,             \* the last call: arguments and outcome
  before,           \* get_markings of every node before the last call, kept
                    \* when that call was a successful add_marking on a node
  nops              \* number of calls made

vars == <<global_markings, null_markings, field_markings, datamarkings,
          coerced, attached, handling, containers, controlled_structure,
          parsed, alternative_id, last, before, nops>>

----------------------------------------------------------------------------
\* Sequence helpers
Range(s) == {s[i] : i \in DOMAIN s}

Contains(s, x) == \E i \in DOMAIN s : s[i] = x

\* list.remove(x): drops the first element equal to x.
RemoveFirst(s, x) ==
  LET i == CHOOSE j \in DOMAIN s : s[j] = x /\ \A k \in 1..(j - 1) : s[k] # x
  IN  SubSeq(s, 1, i - 1) \o SubSeq(s, i + 1, Len(s))

----------------------------------------------------------------------------
\* utils.py / api/__init__.py

is_package(item) == item = Package

is_entity(m) == m \in Entities

\* A raw builtin scalar (str) at a tree location: castable, not yet a wrapper.
is_castable(co, m) == m \in Scalars /\ m \notin co

\* Every argument the model passes is an entity, a wrapper or a castable str.
is_markable(co, m) == m \in co \/ is_entity(m) \/ is_castable(co, m)

api_get_markings(dm, co, m) == IF is_castable(co, m) THEN {} ELSE dm[m]

api_is_marked(dm, co, m) == api_get_markings(dm, co, m) # {}

contains_marking(dm, co, m, marking) == marking \in api_get_markings(dm, co, m)

\* api.add_marking: attaches in place to an entity or a wrapper; a castable
\* value is cast to a new wrapper object and the argument itself is untouched.
api_add_marking(dm, co, m, marking) ==
  IF is_castable(co, m) THEN dm ELSE [dm EXCEPT ![m] = @ \cup {marking}]

api_remove_marking(dm, co, m, marking) ==
  IF ~api_is_marked(dm, co, m) THEN dm ELSE [dm EXCEPT ![m] = @ \ {marking}]

api_clear_markings(dm, co, m) ==
  IF api_is_marked(dm, co, m) THEN [dm EXCEPT ![m] = {}] ELSE dm

----------------------------------------------------------------------------
\* navigator.py

InTree(att, n) == n \notin LateNodes \/ n \in att

RECURSIVE iterwalk(_, _)
RECURSIVE yield_and_walk(_, _, _)

\* Navigator._iter_fields: the (name, value) pairs of obj._fields followed by
\* those of vars(obj). The typed fields are named after the child they hold;
\* vars(obj) holds the bookkeeping attributes, the marking set of the object
\* among them. A string or a set has neither.
iter_fields(obj) ==
  IF obj \in Nodes
    THEN [i \in 1..Len(Children[obj]) |->
            <<Children[obj][i], Children[obj][i]>>]
           \o << <<"_fields", "_fields">>,
                 <<"__datamarkings__", "__datamarkings__">>,
                 <<"__binding__", "__binding__">> >>
    ELSE <<>>

\* An is_skippable that skips nothing.
is_skippable_nothing(varname) == FALSE

\* utils.is_skippable
is_skippable(varname) ==
  varname \in {"__datamarkings__", "_fields", "__input_namespaces__",
               "__input_schemalocations__", "__binding__"}

\* The values of the fields of `entity` that iterwalk does not skip.
walked_fields(entity) ==
  LET fs == SelectSeq(iter_fields(entity), LAMBDA f : ~is_skippable(f[1]))
  IN  [i \in 1..Len(fs) |-> fs[i][2]]

\* Navigator.iterwalk: the descendants of `entity`, depth first. A field that
\* is None (a late node not yet added) is skipped.
iterwalk(att, entity) == yield_and_walk(att, walked_fields(entity), 1)

yield_and_walk(att, kids, i) ==
  IF i > Len(kids) THEN <<>>
  ELSE (IF InTree(att, kids[i])
          THEN <<kids[i]>> \o iterwalk(att, kids[i])
          ELSE <<>>)
       \o yield_and_walk(att, kids, i + 1)

----------------------------------------------------------------------------
\* container.py: helpers

\* dict key of a markable: entities hash by identity, the scalar wrappers of
\* api/types.py subclass str/int/... and hash and compare by value.
Key(m) == IF m \in Scalars THEN <<"value", FieldValue[m]>> ELSE <<"id", m>>

KeyIndex(fm, k) ==
  IF \E i \in DOMAIN fm : fm[i].key = k
    THEN CHOOSE i \in DOMAIN fm : fm[i].key = k
    ELSE 0

FieldEntry(fm, m) ==
  IF KeyIndex(fm, Key(m)) = 0 THEN <<>> ELSE fm[KeyIndex(fm, Key(m))].marks

RECURSIVE attach_all(_, _, _, _, _)
attach_all(dm, co, seq, i, marking) ==
  IF i > Len(seq) THEN dm
  ELSE attach_all(api_add_marking(dm, co, seq[i], marking), co, seq, i + 1,
                  marking)

add_descendants(dm, co, att, markable, marking) ==
  attach_all(dm, co, iterwalk(att, markable), 1, marking)

RECURSIVE remove_all(_, _, _, _, _)
remove_all(dm, co, seq, i, marking) ==
  IF i > Len(seq) THEN dm
  ELSE remove_all(IF contains_marking(dm, co, seq[i], marking)
                    THEN api_remove_marking(dm, co, seq[i], marking)
                    ELSE dm,
                  co, seq, i + 1, marking)

remove_descendants(dm, co, att, markable, marking) ==
  remove_all(dm, co, iterwalk(att, markable), 1, marking)

RECURSIVE clear_all(_, _, _, _)
clear_all(dm, co, seq, i) ==
  IF i > Len(seq) THEN dm
  ELSE clear_all(api_clear_markings(dm, co, seq[i]), co, seq, i + 1)

\* A _clear_descendants that clears the direct children only.
clear_descendants_children(dm, co, att, markable) ==
  clear_all(dm, co, SelectSeq(Children[markable], LAMBDA k : InTree(att, k)),
            1)

clear_descendants(dm, co, att, markable) ==
  clear_all(dm, co, iterwalk(att, markable), 1)

\* tuple(S) / list(S) of a Python set: its elements, each once, in the order
\* the set iterates them.
RECURSIVE as_tuple(_)
as_tuple(S) ==
  IF S = {} THEN <<>>
  ELSE LET x == CHOOSE y \in S : TRUE
       IN  <<x>> \o as_tuple(S \ {x})

\* list(set(all_markings)) at the end of MarkingContainer.get_markings
list_set(all_markings) == as_tuple(Range(all_markings))

RECURSIVE collect(_, _, _, _)
collect(dm, co, seq, i) ==
  IF i > Len(seq) THEN <<>>
  ELSE as_tuple(api_get_markings(dm, co, seq[i]))
         \o collect(dm, co, seq, i + 1)

\* A _get_descendants that walks nothing.
get_descendants_none(dm, co, att, markable) == <<>>

get_descendants(dm, co, att, markable) ==
  collect(dm, co, iterwalk(att, markable), 1)

\* A get_markings that leaves the null markings out of the chain.
get_markings_list_without_null(gm, nm, dm, co, att, markable, descendants, nullm) ==
  list_set(gm \o as_tuple(api_get_markings(dm, co, markable))
             \o (IF descendants THEN get_descendants(dm, co, att, markable)
                 ELSE <<>>))

\* MarkingContainer.get_markings: itertools.chain of the four collections,
\* passed through list(set(...)).
get_markings_list(gm, nm, dm, co, att, markable, descendants, nullm) ==
  LET item_markings == as_tuple(api_get_markings(dm, co, markable))
      descendant_markings_collection ==
        IF descendants THEN get_descendants(dm, co, att, markable) ELSE <<>>
      null_markings_collection == IF nullm THEN nm ELSE <<>>
  IN  list_set(gm \o item_markings \o descendant_markings_collection
                 \o null_markings_collection)

\* The markings get_markings returns, as a set.
get_markings_in(gm, nm, dm, co, att, markable, descendants, nullm) ==
  Range(get_markings_list(gm, nm, dm, co, att, markable, descendants, nullm))

get_markings(markable, descendants, nullm) ==
  get_markings_in(global_markings, null_markings, datamarkings, coerced,
                  attached, markable, descendants, nullm)

\* MarkingContainer.is_marked with a marking argument.
is_marked(markable, marking, descendants) ==
  marking \in get_markings(markable, descendants, FALSE)

----------------------------------------------------------------------------
\* xml.py: XPath building blocks. A controlled structure is a sequence of
\* clauses joined by " | "; a clause is a sequence of steps joined by "/".
Up == Tok("..", "", 0)
XPATH_TLO_RELATIVE_START == <<Up, Up, Up>>
XPATH_HEADER_RELATIVE_START == <<Up, Up, Up, Up>>
XPATH_AXIS_SELF_NODE == Tok("self::node()", "", 0)
XPATH_AXIS_DESCENDANT_OR_SELF_NODE == Tok("descendant-or-self::node()", "", 0)
XPATH_WILDCARD_ALL_ATTRS == Tok("@*", "", 0)
XPATH_GLOBAL_ALL_FIELDS == << <<Tok("//node()", "", 0)>>, <<Tok("//@*", "", 0)>> >>
EmptyCS == <<>>

\* attrmap.is_attribute / attrmap.is_content on one step
is_attribute(step) == step.t = "attr"
is_content(step) == step.t = "text"

----------------------------------------------------------------------------
\* serializer.py

\* The ancestor list navigator.iterpath yields for the object at a location.
RECURSIVE entity_path(_)
entity_path(n) ==
  IF n = Package THEN <<>> ELSE entity_path(Parent[n]) \o <<Parent[n]>>

\* Python equality of two tree objects: scalars by value, entities by
\* identity.
py_equal(a, b) ==
  IF a \in Scalars /\ b \in Scalars THEN FieldValue[a] = FieldValue[b]
  ELSE a = b

\* MarkingSerializer._find_index_of_seq
find_index_of_seq(to_find) ==
  LET val == FieldList[to_find]
  IN  IF \E i \in DOMAIN val : py_equal(val[i], to_find)
        THEN CHOOSE i \in DOMAIN val :
               /\ py_equal(val[i], to_find)
               /\ \A k \in 1..(i - 1) : ~py_equal(val[k], to_find)
        ELSE 1

\* MarkingSerializer._resolve_handling
resolve_handling(path, field_value) ==
  IF \E i \in DOMAIN path : path[i] \in HasHandling
    THEN LET i == CHOOSE j \in DOMAIN path :
                    /\ path[j] \in HasHandling
                    /\ \A k \in 1..(j - 1) : path[k] \notin HasHandling
         IN  [path |-> SubSeq(path, i, Len(path)),
              xpath |-> XPATH_TLO_RELATIVE_START,
              handling |-> path[i]]
    ELSE IF field_value \in HasHandling
           THEN [path |-> <<>>,
                 xpath |-> XPATH_TLO_RELATIVE_START,
                 handling |-> field_value]
           ELSE [path |-> path,
                 xpath |-> XPATH_HEADER_RELATIVE_START,
                 handling |-> "header"]

\* MarkingSerializer._map_to_xml with a field name (inside the loop).
map_to_xml(index, path, field_value) ==
  IF index = Len(path) THEN xmlfield[field_value] ELSE xmlfield[path[index + 1]]

\* MarkingSerializer._map_to_xml without a field name (after the loop).
map_to_node(descendants) ==
  IF descendants THEN XPATH_AXIS_DESCENDANT_OR_SELF_NODE
  ELSE XPATH_AXIS_SELF_NODE

RECURSIVE xpath_steps(_, _, _)
xpath_steps(path, field_value, index) ==
  IF index > Len(path) THEN <<>>
  ELSE LET mapping == map_to_xml(index, path, field_value)
           predicate == find_index_of_seq(IF index = Len(path)
                                            THEN field_value
                                            ELSE path[index + 1])
           step == IF is_attribute(mapping) \/ is_content(mapping)
                     THEN mapping
                     ELSE Tok("elem", mapping.name, predicate)
       IN  <<step>> \o xpath_steps(path, field_value, index + 1)

\* The tail of MarkingSerializer._find_path_and_handling: the node step
\* appended after the loop unless the last step is an attribute or content.
with_node_step(steps, descendants) ==
  IF is_attribute(steps[Len(steps)]) \/ is_content(steps[Len(steps)])
    THEN steps
    ELSE Append(steps, map_to_node(descendants))

\* The attribute wildcard joined to a descendant-or-self expression.
join_all_attrs(xpath, descendants) ==
  IF Contains(xpath, XPATH_AXIS_DESCENDANT_OR_SELF_NODE) /\ descendants
    THEN <<xpath, Append(xpath, XPATH_WILDCARD_ALL_ATTRS)>>
    ELSE <<xpath>>

\* The loop of _find_path_and_handling over the path that _resolve_handling
\* returned as r.
find_path_from(r, field, descendants) ==
  [cs |-> join_all_attrs(
            with_node_step(r.xpath \o xpath_steps(r.path, field, 1),
                           descendants),
            descendants),
   handling |-> r.handling]

\* MarkingSerializer._find_path_and_handling for an object found in the tree.
find_path_and_handling(field, descendants) ==
  find_path_from(resolve_handling(entity_path(field), field), field,
                 descendants)

Record(m, cs) == [m |-> m, cs |-> cs]

\* MarkingSerializer._apply_global_markings
RECURSIVE apply_global_markings(_, _, _)
apply_global_markings(h, gm, i) ==
  IF i > Len(gm) THEN h
  ELSE apply_global_markings(
         [h EXCEPT !["header"] =
            Append(@, Record(gm[i], XPATH_GLOBAL_ALL_FIELDS))],
         gm, i + 1)

\* handling.append(marking) with the controlled structure set
\* (_apply_markings_to_field, per tuple).
append_record(h, r, marking) ==
  [h EXCEPT ![r.handling] = Append(@, Record(marking, r.cs))]

\* MarkingSerializer._apply_markings_to_field
RECURSIVE apply_markings_to_field(_, _, _, _)
apply_markings_to_field(h, field, marking_info, j) ==
  IF j > Len(marking_info) THEN h
  ELSE apply_markings_to_field(
         append_record(h, find_path_and_handling(field, marking_info[j][2]),
                       marking_info[j][1]),
         field, marking_info, j + 1)

\* An _apply_field_markings that skips an entry whose object is not found.
RECURSIVE apply_field_markings_skipping(_, _, _, _)
apply_field_markings_skipping(h, fm, att, i) ==
  IF i > Len(fm) THEN [h |-> h, error |-> None]
  ELSE IF fm[i].marks # <<>> /\ ~InTree(att, fm[i].obj)
         THEN apply_field_markings_skipping(h, fm, att, i + 1)
         ELSE apply_field_markings_skipping(
                apply_markings_to_field(h, fm[i].obj, fm[i].marks, 1),
                fm, att, i + 1)

\* MarkingSerializer._apply_field_markings: stops at the first entry whose
\* object is not found under the package (SerializerFieldNotFoundError).
RECURSIVE apply_field_markings(_, _, _, _)
apply_field_markings(h, fm, att, i) ==
  IF i > Len(fm) THEN [h |-> h, error |-> None]
  ELSE IF fm[i].marks # <<>> /\ ~InTree(att, fm[i].obj)
         THEN [h |-> h, error |-> "SerializerFieldNotFoundError"]
         ELSE apply_field_markings(
                apply_markings_to_field(h, fm[i].obj, fm[i].marks, 1),
                fm, att, i + 1)

\* _apply_null_markings that resolves the null records like global ones.
RECURSIVE apply_null_markings_resolved(_, _, _)
apply_null_markings_resolved(h, nm, i) ==
  IF i > Len(nm) THEN h
  ELSE apply_null_markings_resolved(
         [h EXCEPT !["header"] =
            Append(@, Record(nm[i], XPATH_GLOBAL_ALL_FIELDS))],
         nm, i + 1)

\* MarkingSerializer._apply_null_markings
RECURSIVE apply_null_markings(_, _, _)
apply_null_markings(h, nm, i) ==
  IF i > Len(nm) THEN h
  ELSE apply_null_markings(
         [h EXCEPT !["header"] = Append(@, Record(nm[i], EmptyCS))],
         nm, i + 1)

\* _apply_null_markings after _apply_field_markings returned f; an error
\* raised there skips it.
apply_null_after(f, nm) ==
  IF f.error # None THEN f
  ELSE [h |-> apply_null_markings(f.h, nm, 1), error |-> None]

\* MarkingSerializer._apply_markings
apply_markings(h, gm, fm, nm, att) ==
  apply_null_after(
    apply_field_markings(apply_global_markings(h, gm, 1), fm, att, 1), nm)

----------------------------------------------------------------------------
\* The serialized document and the XPath evaluation done by
\* markingmap._get_marked_nodeset (lxml), on XML nodes <<kind, owner>>.

XmlNode(n) == <<"node", n>>
Document == <<"document", "">>

\* The id attribute of the incident element: an attribute of the document that
\* has the value of the indicator's id and another parent.
XmlIdAttributes == {<<"attr", "incident">>}

XmlNodes(att) ==
  {XmlNode(n) : n \in {x \in Nodes : InTree(att, x)}}
    \cup XmlIdAttributes
    \cup {<<"header", Package>>}
    \cup {<<k, c>> : k \in {"handling", "marking", "cs"},
                     c \in HasHandling \cup {"header"}}

XmlParent(x) ==
  CASE x[1] = "node" ->
         IF x[2] = Package THEN Document ELSE XmlNode(Parent[x[2]])
    [] x[1] = "header" -> XmlNode(Package)
    [] x[1] = "handling" ->
         IF x[2] = "header" THEN <<"header", Package>> ELSE XmlNode(x[2])
    [] x[1] = "marking" -> <<"handling", x[2]>>
    [] x[1] = "cs" -> <<"marking", x[2]>>
    [] x[1] = "attr" -> XmlNode(x[2])
    [] OTHER -> Document

XmlIsAttribute(x) ==
  \/ x[1] = "node" /\ x[2] # Package /\ xmlfield[x[2]].t = "attr"
  \/ x[1] = "attr"

\* The local name and the string value of an attribute node.
XmlName(x) == IF x[1] = "attr" THEN "id" ELSE xmlfield[x[2]].name

XmlValue(x) == IF x[1] = "attr" THEN "Test" ELSE FieldValue[x[2]]

RECURSIVE XmlAncestorsOrSelf(_)
XmlAncestorsOrSelf(x) ==
  IF x = Document THEN {x} ELSE {x} \cup XmlAncestorsOrSelf(XmlParent(x))

\* The child elements of x with the given name, in document order.
XmlChildElements(att, x, name) ==
  IF x[1] # "node" THEN <<>>
  ELSE SelectSeq(Children[x[2]],
                 LAMBDA c : InTree(att, c) /\ xmlfield[c].t = "elem"
                            /\ xmlfield[c].name = name)

xpath_step(att, S, step) ==
  CASE step.t = ".." -> {XmlParent(x) : x \in S \ {Document}}
    [] step.t = "elem" ->
         {XmlNode(XmlChildElements(att, x, step.name)[step.pos]) :
            x \in {y \in S : step.pos \in
                     DOMAIN XmlChildElements(att, y, step.name)}}
    [] step.t = "attr" ->
         {y \in XmlNodes(att) :
            /\ XmlIsAttribute(y) /\ XmlParent(y) \in S
            /\ XmlName(y) = step.name}
    [] step.t = "text" ->
         {y \in XmlNodes(att) :
            /\ y[1] = "node" /\ y[2] # Package /\ XmlParent(y) \in S
            /\ xmlfield[y[2]].t = "text"}
    [] step.t = "self::node()" -> S
    [] step.t = "descendant-or-self::node()" ->
         {y \in XmlNodes(att) \cup {Document} :
            ~XmlIsAttribute(y) /\ XmlAncestorsOrSelf(y) \cap S # {}}
    [] step.t = "@*" ->
         {y \in XmlNodes(att) : XmlIsAttribute(y) /\ XmlParent(y) \in S}
    [] step.t = "//node()" -> {y \in XmlNodes(att) : ~XmlIsAttribute(y)}
    [] step.t = "//@*" -> {y \in XmlNodes(att) : XmlIsAttribute(y)}

RECURSIVE xpath_clause(_, _, _, _)
xpath_clause(att, S, clause, i) ==
  IF i > Len(clause) THEN S
  ELSE xpath_clause(att, xpath_step(att, S, clause[i]), clause, i + 1)

\* The node set of a controlled structure evaluated at the
\* Controlled_Structure element of a record held by container c.
get_marked_nodeset(att, cs, c) ==
  UNION {xpath_clause(att, {<<"cs", c>>}, cs[k], 1) : k \in DOMAIN cs}

\* A key that tells attributes apart by their value alone, as the lxml string
\* results do.
make_key_by_value(x) ==
  IF XmlIsAttribute(x)
    THEN [class |-> "_XmlAttribute", name |-> "", value |-> XmlValue(x),
          node |-> Document]
    ELSE [class |-> "_XmlElement", name |-> "", value |-> "", node |-> x]

\* MarkingMap._make_key: an element is keyed by the identity of its node
\* (_XmlElement), an attribute by its name, its value and the identity of its
\* parent (_XmlAttribute).
make_key(x) ==
  IF XmlIsAttribute(x)
    THEN [class |-> "_XmlAttribute", name |-> XmlName(x),
          value |-> XmlValue(x), node |-> XmlParent(x)]
    ELSE [class |-> "_XmlElement", name |-> "", value |-> "", node |-> x]

\* markingmap.build and MarkingMap.__getitem__: the markings stored under
\* the key of the XML node x.
markingmap(att, h, x) ==
  UNION {{h[c][j].m : j \in {k \in DOMAIN h[c] :
                               /\ h[c][k].cs # EmptyCS
                               /\ \E y \in get_marked_nodeset(att, h[c][k].cs,
                                                              c) :
                                    make_key(y) = make_key(x)}} :
           c \in HasHandling \cup {"header"}}

----------------------------------------------------------------------------
\* parser.py

\* The XML node MarkingParser looks up for a tree object: the source node of
\* an entity; for a scalar field, xml.findattr / xml.findtext / xml.find on
\* the source node of the owning entity.
sourcenode(att, n) ==
  IF n \in Entities THEN XmlNode(n)
  ELSE LET sel == xmlfield[n]
           owner == XmlNode(Parent[n])
       IN  IF sel.t = "elem"
             THEN XmlNode(XmlChildElements(att, owner, sel.name)[1])
             ELSE CHOOSE y \in XmlNodes(att) :
                    /\ y[1] = "node" /\ y[2] \in Scalars
                    /\ XmlParent(y) = owner
                    /\ xmlfield[y[2]] = sel

\* MarkingParser._process_markings: the __datamarkings__ of every object of
\* the parsed package.
parse_xml(att, h) ==
  [n \in Nodes |->
     IF InTree(att, n) THEN markingmap(att, h, sourcenode(att, n)) ELSE {}]

----------------------------------------------------------------------------
Call(op, markable, marking, descendants, result) ==
  [op |-> op, markable |-> markable, marking |-> marking,
   descendants |-> descendants, nullm |-> FALSE, result |-> result,
   ret |-> <<>>]

NoSnapshot == [n \in Nodes |-> {}]

Snapshot == [n \in Nodes |-> get_markings(n, FALSE, FALSE)]

Init ==
  /\ global_markings = <<>>
  /\ null_markings = <<>>
  /\ field_markings = <<>>
  /\ datamarkings = [n \in Nodes |-> {}]
  /\ coerced = {}
  /\ attached = {}
  /\ handling = [c \in HasHandling \cup {"header"} |-> <<>>]
  /\ containers = {}
  /\ controlled_structure =
       [r \in Held |-> IF r = Resolved THEN XPATH_GLOBAL_ALL_FIELDS
                          ELSE EmptyCS]
  /\ parsed = None
  /\ alternative_id = <<>>
  /\ last = Call("new", None, None, FALSE, "ok")
  /\ before = NoSnapshot
  /\ nops = 0

\* A value that is not a MarkingSpecification, passed as a marking.
NotAMarking == "not_a_marking"

\* A bare Python list of strings, passed as a markable.
RawList == "raw_list"

\* utils.check_marking: TRUE when it returns, FALSE when it raises
\* UnknownMarkingError.
check_marking(marking) == marking \in Held

\* utils.check_empty_marking: TRUE when it returns, FALSE when it raises
\* MarkingPathNotEmpty.
check_empty_marking(cs, marking) == cs[marking] = EmptyCS

\* An add_global that embeds the record in the header at once.
add_global_embedding(marking) ==
  /\ nops < MaxOps
  /\ nops' = nops + 1
  /\ before' = NoSnapshot
  /\ handling' = [handling EXCEPT !["header"] =
                    Append(@, Record(marking, XPATH_GLOBAL_ALL_FIELDS))]
  /\ containers' = containers \cup {"header"}
  /\ UNCHANGED controlled_structure
  /\ last' = Call("add_global", None, marking, FALSE, "ok")
  /\ UNCHANGED <<global_markings, null_markings, field_markings,
                 datamarkings, coerced, attached, parsed, alternative_id>>

\* An add_global without the membership test.
add_global_unchecked(marking) ==
  /\ nops < MaxOps
  /\ nops' = nops + 1
  /\ UNCHANGED <<containers, controlled_structure>>
  /\ before' = NoSnapshot
  /\ global_markings' = Append(global_markings, marking)
  /\ last' = Call("add_global", None, marking, FALSE, "ok")
  /\ UNCHANGED <<null_markings, field_markings, datamarkings, coerced,
                 attached, handling, parsed, alternative_id>>

\* MarkingContainer.add_global
add_global(marking) ==
  /\ nops < MaxOps
  /\ nops' = nops + 1
  /\ UNCHANGED <<containers, controlled_structure>>
  /\ before' = NoSnapshot
  /\ IF ~check_marking(marking)
       THEN /\ UNCHANGED global_markings
            /\ last' = Call("add_global", None, marking, FALSE,
                            "UnknownMarkingError")
     ELSE
     IF ~check_empty_marking(controlled_structure, marking)
       THEN /\ UNCHANGED global_markings
            /\ last' = Call("add_global", None, marking, FALSE,
                            "MarkingPathNotEmpty")
       ELSE
         IF ~Contains(global_markings, marking)
           THEN /\ global_markings' = Append(global_markings, marking)
                /\ last' = Call("add_global", None, marking, FALSE, "ok")
           ELSE /\ UNCHANGED global_markings
                /\ last' = Call("add_global", None, marking, FALSE,
                                "DuplicateMarkingError")
  /\ UNCHANGED <<null_markings, field_markings, datamarkings, coerced,
                 attached, handling, parsed, alternative_id>>

\* self._field_markings[marked].append((marking, descendants)): the
\* defaultdict creates the entry, keyed by `marked`, on first access.
append_field_marking(fm, markable, mark) ==
  LET i == KeyIndex(fm, Key(markable))
  IN  IF i = 0
        THEN Append(fm, [key |-> Key(markable), obj |-> markable,
                         marks |-> <<mark>>])
        ELSE [fm EXCEPT ![i].marks = Append(@, mark)]

\* MarkingContainer.add_marking; the caller stores the returned object in
\* place of the value it passed (container.py:182-185).
add_marking(markable, marking, descendants) ==
  /\ nops < MaxOps
  /\ nops' = nops + 1
  /\ UNCHANGED <<containers, controlled_structure>>
  /\ UNCHANGED <<global_markings, attached, handling, parsed, alternative_id>>
  /\ IF ~check_marking(marking)
       THEN /\ UNCHANGED <<null_markings, field_markings, datamarkings,
                           coerced>>
            /\ last' = Call("add_marking", markable, marking, descendants,
                            "UnknownMarkingError")
     ELSE
     IF ~check_empty_marking(controlled_structure, marking)
       THEN /\ UNCHANGED <<null_markings, field_markings, datamarkings,
                           coerced>>
            /\ last' = Call("add_marking", markable, marking, descendants,
                            "MarkingPathNotEmpty")
     ELSE
     IF markable = None
       THEN /\ UNCHANGED <<field_markings, datamarkings, coerced>>
            /\ IF ~Contains(null_markings, marking)
                 THEN /\ null_markings' = Append(null_markings, marking)
                      /\ last' = Call("add_marking", None, marking,
                                      descendants, "ok")
                 ELSE /\ UNCHANGED null_markings
                      /\ last' = Call("add_marking", None, marking,
                                      descendants, "DuplicateMarkingError")
     ELSE
     IF ~is_markable(coerced, markable)
       THEN \* _assert_unique_marking -> is_marked
            /\ UNCHANGED <<null_markings, field_markings, datamarkings,
                           coerced>>
            /\ last' = Call("add_marking", markable, marking, descendants,
                            "UnmarkableError")
       ELSE
         /\ UNCHANGED null_markings
         /\ IF is_marked(markable, marking, FALSE)
              THEN \* _assert_unique_marking
                   /\ UNCHANGED <<field_markings, datamarkings, coerced>>
                   /\ last' = Call("add_marking", markable, marking,
                                   descendants, "DuplicateMarkingError")
              ELSE
                LET marked_dm == api_add_marking(datamarkings, coerced,
                                                 markable, marking)
                    entry == FieldEntry(field_markings, markable)
                IN
                IF is_package(markable)
                  THEN /\ datamarkings' = marked_dm
                       /\ UNCHANGED <<field_markings, coerced>>
                       /\ last' = Call("add_marking", markable, marking,
                                       descendants, "UnmarkableError")
                  ELSE
                    IF \A i \in DOMAIN entry :
                         entry[i] # <<marking, descendants>>
                      THEN
                        LET stored_dm ==
                              IF is_castable(coerced, markable)
                                THEN [datamarkings EXCEPT
                                        ![markable] = {marking}]
                                ELSE marked_dm
                        IN
                        /\ datamarkings' =
                             IF descendants
                               THEN add_descendants(stored_dm, coerced,
                                                    attached, markable,
                                                    marking)
                               ELSE stored_dm
                        /\ coerced' = IF markable \in Scalars
                                        THEN coerced \cup {markable}
                                        ELSE coerced
                        /\ field_markings' =
                             append_field_marking(field_markings, markable,
                                                  <<marking, descendants>>)
                        /\ last' = Call("add_marking", markable, marking,
                                        descendants, "ok")
                      ELSE
                        /\ datamarkings' = marked_dm
                        /\ UNCHANGED <<field_markings, coerced>>
                        /\ last' = Call("add_marking", markable, marking,
                                        descendants, "DuplicateMarkingError")
  /\ before' = IF last'.result = "ok" /\ markable # None
                 THEN Snapshot ELSE NoSnapshot

\* Equality of the record the caller passes with an embedded record:
\* mixbox entities compare field by field, the controlled structure included.
record_equals(r, marking) ==
  r.m = marking /\ r.cs = controlled_structure[marking]

\* Handling containers in the order navigator.iterwalk(package) meets them.
Containers == <<"header", "incident", "indicator">>

holder(h, marking) ==
  IF \E i \in DOMAIN Containers :
       \E j \in DOMAIN h[Containers[i]] :
         record_equals(h[Containers[i]][j], marking)
    THEN Containers[
           CHOOSE i \in DOMAIN Containers :
             /\ \E j \in DOMAIN h[Containers[i]] :
                  record_equals(h[Containers[i]][j], marking)
             /\ \A k \in 1..(i - 1) :
                  \A j \in DOMAIN h[Containers[k]] :
                    ~record_equals(h[Containers[k]][j], marking)]
    ELSE None

\* MarkingContainer._remove_marking_specification: the handling after the
\* call; holder(h, marking) = None is the MarkingNotFoundError case.
remove_marking_specification(h, marking) ==
  LET c == holder(h, marking)
  IN  IF c = None THEN h
      ELSE [h EXCEPT ![c] =
              RemoveFirst(@, Record(marking, controlled_structure[marking]))]

\* The first object met by iterwalk(package) that carries `marking`.
first_marked(dm, co, att, marking) ==
  LET walk == iterwalk(att, Package)
  IN  IF \E i \in DOMAIN walk : contains_marking(dm, co, walk[i], marking)
        THEN walk[CHOOSE i \in DOMAIN walk :
                    /\ contains_marking(dm, co, walk[i], marking)
                    /\ \A k \in 1..(i - 1) :
                         ~contains_marking(dm, co, walk[k], marking)]
        ELSE None

\* MarkingContainer.remove_marking
\* A removal from the field entry that matches the marking alone and ignores
\* the descendants flag of the tuple.
remove_tracked_any_flag(markable, marking, descendants) ==
  LET i == KeyIndex(field_markings, Key(markable))
      entry == field_markings[i].marks
  IN
  IF \E d \in BOOLEAN : Contains(entry, <<marking, d>>)
    THEN
      /\ field_markings' =
           [field_markings EXCEPT ![i].marks = 
              RemoveFirst(@, <<marking,
                               CHOOSE d \in BOOLEAN :
                                 Contains(entry, <<marking, d>>)>>)]
      /\ datamarkings' =
           IF contains_marking(datamarkings, coerced, markable, marking)
             THEN LET dm1 == api_remove_marking(datamarkings, coerced,
                                                markable, marking)
                  IN  IF descendants
                        THEN remove_descendants(dm1, coerced, attached,
                                                markable, marking)
                        ELSE dm1
             ELSE datamarkings
      /\ UNCHANGED handling
      /\ last' = Call("remove_marking", markable, marking, descendants, "ok")
    ELSE
      /\ UNCHANGED <<field_markings, datamarkings, handling>>
      /\ last' = Call("remove_marking", markable, marking, descendants,
                      "MarkingNotFoundError")

\* remove_marking for a markable that is a key of _field_markings
\* (container.py 443-462).
remove_tracked(markable, marking, descendants) ==
  LET i == KeyIndex(field_markings, Key(markable))
      entry == field_markings[i].marks
  IN
  IF Contains(entry, <<marking, descendants>>)
    THEN
      /\ field_markings' =
           [field_markings EXCEPT ![i].marks = 
              RemoveFirst(@, <<marking, descendants>>)]
      /\ datamarkings' =
           IF contains_marking(datamarkings, coerced, markable, marking)
             THEN LET dm1 == api_remove_marking(datamarkings, coerced,
                                                markable, marking)
                  IN  IF descendants
                        THEN remove_descendants(dm1, coerced, attached,
                                                markable, marking)
                        ELSE dm1
             ELSE datamarkings
      /\ UNCHANGED handling
      /\ last' = Call("remove_marking", markable, marking, descendants, "ok")
    ELSE
      /\ UNCHANGED <<field_markings, datamarkings, handling>>
      /\ last' = Call("remove_marking", markable, marking, descendants,
                      "MarkingNotFoundError")

remove_marking(markable, marking, descendants) ==
  /\ nops < MaxOps
  /\ nops' = nops + 1
  /\ UNCHANGED <<containers, controlled_structure>>
  /\ before' = NoSnapshot
  /\ UNCHANGED <<global_markings, coerced, attached, parsed, alternative_id>>
  /\ IF ~check_marking(marking)
       THEN /\ UNCHANGED <<null_markings, field_markings, datamarkings,
                           handling>>
            /\ last' = Call("remove_marking", markable, marking, descendants,
                            "UnknownMarkingError")
     ELSE
     IF markable # None /\ ~is_markable(coerced, markable)
       THEN /\ UNCHANGED <<null_markings, field_markings, datamarkings,
                           handling>>
            /\ last' = Call("remove_marking", markable, marking, descendants,
                            "UnmarkableError")
     ELSE
     IF markable = None
       THEN
         /\ UNCHANGED <<field_markings, datamarkings>>
         /\ IF Contains(null_markings, marking)
              THEN /\ null_markings' = RemoveFirst(null_markings, marking)
                   /\ UNCHANGED handling
                   /\ last' = Call("remove_marking", None, marking,
                                   descendants, "ok")
              ELSE /\ UNCHANGED null_markings
                   /\ handling' = remove_marking_specification(handling,
                                                               marking)
                   /\ last' = Call("remove_marking", None, marking,
                                   descendants,
                                   IF holder(handling, marking) = None
                                     THEN "MarkingNotFoundError" ELSE "ok")
       ELSE
         /\ UNCHANGED null_markings
         /\ IF KeyIndex(field_markings, Key(markable)) # 0
              THEN remove_tracked(markable, marking, descendants)
              ELSE
                /\ UNCHANGED field_markings
                /\ IF ~contains_marking(datamarkings, coerced, markable,
                                        marking)
                     THEN /\ UNCHANGED <<datamarkings, handling>>
                          /\ last' = Call("remove_marking", markable,
                                          marking, descendants,
                                          "MarkingNotFoundError")
                     ELSE
                       IF is_package(markable)
                         THEN /\ UNCHANGED <<datamarkings, handling>>
                              /\ last' = Call("remove_marking", markable,
                                              marking, descendants,
                                              "MarkingRemovalError")
                         ELSE
                           LET mark == first_marked(datamarkings, coerced,
                                                    attached, marking)
                           IN
                           IF mark = None
                             THEN /\ UNCHANGED <<datamarkings, handling>>
                                  /\ last' = Call("remove_marking", markable,
                                                  marking, descendants,
                                                  "MarkingNotFoundError")
                             ELSE
                               IF mark = markable
                                 THEN
                                   LET dm1 == api_remove_marking(
                                                datamarkings, coerced,
                                                markable, marking)
                                   IN
                                   /\ datamarkings' =
                                        IF descendants
                                          THEN remove_descendants(
                                                 dm1, coerced, attached,
                                                 markable, marking)
                                          ELSE dm1
                                   /\ handling' =
                                        remove_marking_specification(
                                          handling, marking)
                                   /\ last' =
                                        Call("remove_marking", markable,
                                             marking, descendants,
                                             IF holder(handling, marking)
                                                  = None
                                               THEN "MarkingNotFoundError"
                                               ELSE "ok")
                                 ELSE
                                   /\ UNCHANGED <<datamarkings, handling>>
                                   /\ last' = Call("remove_marking",
                                                   markable, marking,
                                                   descendants,
                                                   "MarkingRemovalError")

\* MarkingContainer.clear_markings
clear_markings(markable, descendants) ==
  /\ nops < MaxOps
  /\ nops' = nops + 1
  /\ UNCHANGED <<containers, controlled_structure>>
  /\ before' = NoSnapshot
  /\ IF ~is_markable(coerced, markable)
       THEN /\ UNCHANGED datamarkings
            /\ last' = Call("clear_markings", markable, None, descendants,
                            "UnmarkableError")
       ELSE /\ datamarkings' =
                 LET dm1 == api_clear_markings(datamarkings, coerced,
                                               markable)
                 IN  IF descendants
                       THEN clear_descendants(dm1, coerced, attached,
                                              markable)
                       ELSE dm1
            /\ last' = Call("clear_markings", markable, None, descendants,
                            "ok")
  /\ UNCHANGED <<global_markings, null_markings, field_markings, coerced,
                 attached, handling, parsed, alternative_id>>

\* MarkingContainer.remove_global
remove_global(marking) ==
  /\ nops < MaxOps
  /\ nops' = nops + 1
  /\ UNCHANGED <<containers, controlled_structure>>
  /\ before' = NoSnapshot
  /\ UNCHANGED <<null_markings, field_markings, coerced, attached, parsed, alternative_id>>
  /\ IF ~check_marking(marking)
       THEN /\ UNCHANGED <<global_markings, datamarkings, handling>>
            /\ last' = Call("remove_global", None, marking, FALSE,
                            "UnknownMarkingError")
     ELSE
     IF Contains(global_markings, marking)
       THEN /\ global_markings' = RemoveFirst(global_markings, marking)
            /\ UNCHANGED <<datamarkings, handling>>
            /\ last' = Call("remove_global", None, marking, FALSE, "ok")
       ELSE
         /\ UNCHANGED global_markings
         /\ IF marking \in get_markings(Package, FALSE, FALSE)
              THEN
                /\ datamarkings' =
                     remove_descendants(
                       api_remove_marking(datamarkings, coerced, Package,
                                          marking),
                       coerced, attached, Package, marking)
                /\ handling' = remove_marking_specification(handling,
                                                            marking)
                /\ last' = Call("remove_global", None, marking, FALSE,
                                IF holder(handling, marking) = None
                                  THEN "MarkingNotFoundError" ELSE "ok")
              ELSE
                /\ UNCHANGED <<datamarkings, handling>>
                /\ last' = Call("remove_global", None, marking, FALSE,
                                "MarkingNotFoundError")

\* The application adds a node to the package (package.add_observable).
add_observable(node) ==
  /\ nops < MaxOps
  /\ node \in LateNodes \ attached
  /\ nops' = nops + 1
  /\ UNCHANGED <<containers, controlled_structure>>
  /\ before' = NoSnapshot
  /\ attached' = attached \cup {node}
  /\ last' = Call("add_observable", node, None, FALSE, "ok")
  /\ UNCHANGED <<global_markings, null_markings, field_markings,
                 datamarkings, coerced, handling, parsed, alternative_id>>

\* A serializer that asks for the handling of the package on every run.
created_with_header(h, applied) ==
  {c \in DOMAIN h : Len(applied[c]) > Len(h[c])} \cup {"header"}

\* utils.get_handling creates the Marking container of the anchor when it is
\* missing; the serializer calls it right before it adds a record there.
created(h, applied) == {c \in DOMAIN h : Len(applied[c]) > Len(h[c])}

\* A flush whose serializer sets the target on the buffered global records
\* themselves instead of on copies.
flush_in_place ==
  /\ nops < MaxOps
  /\ \E r \in {apply_markings(handling, global_markings, field_markings,
                              null_markings, attached)} :
       /\ nops' = nops + 1
       /\ before' = NoSnapshot
       /\ handling' = r.h
       /\ containers' = containers \cup created(handling, r.h)
       /\ controlled_structure' =
            [m \in Held |->
               IF Contains(global_markings, m) THEN XPATH_GLOBAL_ALL_FIELDS
               ELSE controlled_structure[m]]
       /\ IF r.error = None
            THEN /\ global_markings' = <<>>
                 /\ field_markings' = <<>>
                 /\ null_markings' = <<>>
                 /\ last' = Call("flush", None, None, FALSE, "ok")
            ELSE /\ UNCHANGED <<global_markings, field_markings, null_markings>>
                 /\ last' = Call("flush", None, None, FALSE, r.error)
       /\ UNCHANGED <<datamarkings, coerced, attached, parsed, alternative_id>>

\* A flush that resets the collections whether or not the serializer raised.
flush_resetting ==
  /\ nops < MaxOps
  /\ \E r \in {apply_markings(handling, global_markings, field_markings,
                              null_markings, attached)} :
       /\ nops' = nops + 1
       /\ before' = NoSnapshot
       /\ handling' = r.h
       /\ containers' = containers \cup created(handling, r.h)
       /\ UNCHANGED controlled_structure
       /\ global_markings' = <<>>
       /\ field_markings' = <<>>
       /\ null_markings' = <<>>
       /\ last' = Call("flush", None, None, FALSE,
                       IF r.error = None THEN "ok" ELSE r.error)
       /\ UNCHANGED <<datamarkings, coerced, attached, parsed, alternative_id>>

\* A flush that does not call _reset_collections.
flush_keeping ==
  /\ nops < MaxOps
  /\ \E r \in {apply_markings(handling, global_markings, field_markings,
                              null_markings, attached)} :
       /\ nops' = nops + 1
       /\ UNCHANGED <<containers, controlled_structure>>
       /\ before' = NoSnapshot
       /\ handling' = r.h
       /\ last' = Call("flush", None, None, FALSE,
                       IF r.error = None THEN "ok" ELSE r.error)
       /\ UNCHANGED <<global_markings, field_markings, null_markings,
                      datamarkings, coerced, attached, parsed, alternative_id>>

\* A flush that also strips the markings attached to the nodes of the tree.
flush_detaching ==
  /\ nops < MaxOps
  /\ \E r \in {apply_markings(handling, global_markings, field_markings,
                              null_markings, attached)} :
       /\ nops' = nops + 1
       /\ before' = NoSnapshot
       /\ handling' = r.h
       /\ containers' = containers \cup created(handling, r.h)
       /\ UNCHANGED controlled_structure
       /\ IF r.error = None
            THEN /\ global_markings' = <<>>
                 /\ field_markings' = <<>>
                 /\ null_markings' = <<>>
                 /\ datamarkings' = [n \in DOMAIN datamarkings |-> {}]
                 /\ last' = Call("flush", None, None, FALSE, "ok")
            ELSE /\ UNCHANGED <<global_markings, field_markings, null_markings,
                                datamarkings>>
                 /\ last' = Call("flush", None, None, FALSE, r.error)
       /\ UNCHANGED <<coerced, attached, parsed, alternative_id>>

\* MarkingContainer.flush: _apply_markings, then _reset_collections unless
\* the serializer raised.
flush ==
  /\ nops < MaxOps
  /\ \E r \in {apply_markings(handling, global_markings, field_markings,
                              null_markings, attached)} :
       /\ nops' = nops + 1
       /\ before' = NoSnapshot
       /\ handling' = r.h
       /\ containers' = containers \cup created(handling, r.h)
       /\ UNCHANGED controlled_structure
       /\ IF r.error = None
            THEN /\ global_markings' = <<>>
                 /\ field_markings' = <<>>
                 /\ null_markings' = <<>>
                 /\ last' = Call("flush", None, None, FALSE, "ok")
            ELSE /\ UNCHANGED <<global_markings, field_markings, null_markings>>
                 /\ last' = Call("flush", None, None, FALSE, r.error)
       /\ UNCHANGED <<datamarkings, coerced, attached, parsed, alternative_id>>

\* MarkingContainer.to_xml followed by stixmarx.parse of the output, as in
\* SerializeTest.test_marking_round_trip.
to_xml ==
  /\ nops < MaxOps
  /\ \E r \in {apply_markings(handling, global_markings, field_markings,
                              null_markings, attached)} :
       /\ nops' = nops + 1
       /\ before' = NoSnapshot
       /\ handling' = r.h
       /\ containers' = containers \cup created(handling, r.h)
       /\ UNCHANGED controlled_structure
       /\ IF r.error = None
            THEN /\ global_markings' = <<>>
                 /\ field_markings' = <<>>
                 /\ null_markings' = <<>>
                 /\ parsed' = parse_xml(attached, r.h)
                 /\ UNCHANGED alternative_id
                 /\ last' = Call("to_xml", None, None, FALSE, "ok")
            ELSE /\ UNCHANGED <<global_markings, field_markings, null_markings,
                                parsed, alternative_id>>
                 /\ last' = Call("to_xml", None, None, FALSE, r.error)
       /\ UNCHANGED <<datamarkings, coerced, attached>>

Next ==
  \/ \E marking \in Markings : add_global(marking)
  \/ \E marking \in Markings : remove_global(marking)
  \/ \E markable \in Nodes \cup {None}, marking \in Markings,
        descendants \in BOOLEAN :
       add_marking(markable, marking, descendants)
  \/ \E markable \in Nodes \cup {None}, marking \in Markings,
        descendants \in BOOLEAN :
       remove_marking(markable, marking, descendants)
  \/ \E markable \in Nodes, descendants \in BOOLEAN :
       clear_markings(markable, descendants)
  \/ \E node \in LateNodes : add_observable(node)
  \/ flush
  \/ to_xml

Spec == Init /\ [][Next]_vars

\* A session that only applies markings and then serializes: the sessions of
\* SerializeTest.test_marking_round_trip.
NextRoundTrip ==
  \/ \E marking \in Markings : add_global(marking)
  \/ \E markable \in Nodes \cup {None}, marking \in Markings,
        descendants \in BOOLEAN :
       add_marking(markable, marking, descendants)
  \/ \E node \in LateNodes : add_observable(node)
  \/ to_xml

SpecRoundTrip == Init /\ [][NextRoundTrip]_vars

\* An is_marked that answers False for a value that cannot be marked.
is_marked_call_lenient(markable, marking, descendants) ==
  /\ nops < MaxOps
  /\ nops' = MaxOps
  /\ before' = NoSnapshot
  /\ last' = Call("is_marked", markable, marking, descendants,
                  IF ~is_markable(coerced, markable) THEN "False"
                  ELSE IF ~check_marking(marking) THEN "UnknownMarkingError"
                  ELSE IF marking \in get_markings(markable, descendants,
                                                   FALSE)
                         THEN "True" ELSE "False")
  /\ UNCHANGED <<global_markings, null_markings, field_markings,
                 datamarkings, coerced, attached, handling, containers,
                 controlled_structure, parsed, alternative_id>>

\* A call of MarkingContainer.is_marked with a marking argument; the answer
\* is kept in last.result. The query changes nothing, so it is taken as the
\* last call of a session.
is_marked_call(markable, marking, descendants) ==
  /\ nops < MaxOps
  /\ nops' = MaxOps
  /\ before' = NoSnapshot
  /\ last' = Call("is_marked", markable, marking, descendants,
                  IF ~is_markable(coerced, markable) THEN "UnmarkableError"
                  ELSE IF ~check_marking(marking) THEN "UnknownMarkingError"
                  ELSE IF marking \in get_markings(markable, descendants,
                                                   FALSE)
                         THEN "True" ELSE "False")
  /\ UNCHANGED <<global_markings, null_markings, field_markings,
                 datamarkings, coerced, attached, handling, containers,
                 controlled_structure, parsed, alternative_id>>

\* A call of navigator.iterwalk on an object of the tree; the sequence it
\* yields is kept in last.ret. The walk changes nothing, so it is taken as
\* the last call of a session.
iterwalk_call(entity) ==
  /\ nops < MaxOps
  /\ nops' = MaxOps
  /\ before' = NoSnapshot
  /\ last' = [Call("iterwalk", entity, None, FALSE, "ok")
                EXCEPT !.ret = iterwalk(attached, entity)]
  /\ UNCHANGED <<global_markings, null_markings, field_markings,
                 datamarkings, coerced, attached, handling, containers,
                 controlled_structure, parsed, alternative_id>>

\* A call of MarkingContainer.get_markings; the list it returns is kept in
\* last.ret. The query changes nothing, so it is taken as the last call of a
\* session: the sessions that go on after it are the sessions without it.
get_markings_call(markable, descendants, nullm) ==
  /\ nops < MaxOps
  /\ nops' = MaxOps
  /\ UNCHANGED <<containers, controlled_structure>>
  /\ before' = NoSnapshot
  /\ last' = [op |-> "get_markings", markable |-> markable,
              marking |-> None, descendants |-> descendants,
              nullm |-> nullm, result |-> "ok",
              ret |-> get_markings_list(global_markings, null_markings,
                                        datamarkings, coerced, attached,
                                        markable, descendants, nullm)]
  /\ UNCHANGED <<global_markings, null_markings, field_markings,
                 datamarkings, coerced, attached, handling, parsed, alternative_id>>

NextQuery ==
  \/ \E marking \in Markings : add_global(marking)
  \/ \E marking \in Markings : remove_global(marking)
  \/ \E markable \in Nodes \cup {None}, marking \in Markings,
        descendants \in BOOLEAN :
       add_marking(markable, marking, descendants)
  \/ \E markable \in Nodes, descendants \in BOOLEAN :
       clear_markings(markable, descendants)
  \/ \E node \in LateNodes : add_observable(node)
  \/ flush
  \/ \E markable \in Nodes, descendants \in BOOLEAN, nullm \in BOOLEAN :
       get_markings_call(markable, descendants, nullm)

SpecQuery == Init /\ [][NextQuery]_vars

----------------------------------------------------------------------------
\* Vocabulary of the properties

\* The strict descendants of n that are in the tree, by the parent relation.
StrictDescendants(n) ==
  {b \in Nodes \ {Package} :
     InTree(attached, b) /\ \E i \in DOMAIN entity_path(b) :
                              entity_path(b)[i] = n}

\* get_markings(n) in the state after the step.
get_markings_after(n) ==
  get_markings_in(global_markings', null_markings', datamarkings', coerced',
                  attached', n, FALSE, FALSE)

\* Number of (M, flag) tuples that the field entry of n holds for M.
TuplesFor(n, M) ==
  Cardinality({i \in DOMAIN FieldEntry(field_markings, n) :
                 FieldEntry(field_markings, n)[i][1] = M})

NoDuplicates(s) == \A i, j \in DOMAIN s : s[i] = s[j] => i = j

----------------------------------------------------------------------------
\* C1: serializing with to_xml and parsing the output again gives every node
\* that carried markings before serialization exactly the marking set that
\* get_markings reported for it before serialization (no marking lost, none
\* gained), for sessions that only apply markings through the store.
C1_RoundTrip ==
  [][(last'.op = "to_xml" /\ last'.result = "ok")
       => \A n \in Nodes \ {Package} :
            (InTree(attached, n) /\ datamarkings[n] # {})
              => parsed'[n] = get_markings(n, FALSE, FALSE)]_vars

\* C2: add_marking(n, M, d) on a non-root node n that already carries M
\* raises DuplicateMarkingError whatever the descendants flags are, and the
\* field entry of a node never holds more than one tuple for a marking.
C2_DuplicateRejected ==
  /\ [][(/\ last'.op = "add_marking"
         /\ last'.markable \in Nodes \ {Package}
         /\ contains_marking(datamarkings, coerced, last'.markable,
                             last'.marking))
          => last'.result = "DuplicateMarkingError"]_vars
  /\ [](\A n \in Nodes \ {Package}, M \in Markings : TuplesFor(n, M) <= 1)

\* C3: when a node n1 holds a tuple for M, add_marking(n2, M, d) succeeds for
\* every other non-root node n2 that does not carry M (own or global), and
\* afterwards n1 and n2 have separate field entries; this covers two scalar
\* fields with equal values.
C3_OtherNodeAccepted ==
  [][(/\ last'.op = "add_marking"
      /\ last'.markable \in Nodes \ {Package}
      /\ ~is_marked(last'.markable, last'.marking, FALSE)
      /\ \E i \in DOMAIN field_markings :
           /\ field_markings[i].obj # last'.markable
           /\ \E d \in BOOLEAN :
                Contains(field_markings[i].marks, <<last'.marking, d>>))
       => /\ last'.result = "ok"
          /\ \E j \in DOMAIN field_markings' :
               /\ field_markings'[j].obj = last'.markable
               /\ Contains(field_markings'[j].marks,
                           <<last'.marking, last'.descendants>>)]_vars

\* C4: after a successful add_marking(A, M, descendants=True) every strict
\* descendant B of A in the tree, scalar field values included, reports M in
\* get_markings(B).
C4_DescendantsInherit ==
  (last.op = "add_marking" /\ last.result = "ok" /\ last.descendants
     /\ last.markable # None)
    => \A B \in StrictDescendants(last.markable) :
         last.marking \in get_markings(B, FALSE, FALSE)

\* C5: when an ancestor A holds (M, True) and carries M, and its strict
\* descendant B carries M, remove_marking(B, M) raises MarkingRemovalError
\* and leaves M on A and on B.
C5_RemovalGuard ==
  [][(/\ last'.op = "remove_marking"
      /\ last'.markable \in Nodes \ {Package}
      /\ contains_marking(datamarkings, coerced, last'.markable,
                          last'.marking)
      /\ \E A \in Nodes \ {Package} :
           /\ last'.markable \in StrictDescendants(A)
           /\ Contains(FieldEntry(field_markings, A), <<last'.marking, TRUE>>)
           /\ contains_marking(datamarkings, coerced, A, last'.marking))
       => /\ last'.result = "MarkingRemovalError"
          /\ last'.marking \in datamarkings'[last'.markable]
          /\ \A A \in Nodes \ {Package} :
               (/\ last'.markable \in StrictDescendants(A)
                /\ last'.marking \in datamarkings[A])
                 => last'.marking \in datamarkings'[A]]_vars

\* C6: a successful add_marking(n, M, d) immediately followed by
\* remove_marking(n, M, d) succeeds, leaves n without M, and restores
\* get_markings of every node to what it was before the add.
C6_AddRemoveInverse ==
  [][(/\ last.op = "add_marking" /\ last.result = "ok"
      /\ last.markable # None
      /\ last'.op = "remove_marking"
      /\ last'.markable = last.markable
      /\ last'.marking = last.marking
      /\ last'.descendants = last.descendants)
       => /\ last'.result = "ok"
          /\ last.marking \notin get_markings_after(last.markable)
          /\ \A x \in Nodes : get_markings_after(x) = before[x]]_vars

\* C7: get_markings(n, descendants, null_markings) returns exactly the union
\* of the buffered global markings, n's own attached markings, the attached
\* markings of every descendant of n when descendants is true, and the
\* buffered null markings when null_markings is true, each marking once.
C7_GetMarkingsUnion ==
  last.op = "get_markings"
    => /\ Range(last.ret) =
            Range(global_markings) \cup datamarkings[last.markable]
              \cup (IF last.descendants
                      THEN UNION {datamarkings[b] :
                                    b \in StrictDescendants(last.markable)}
                      ELSE {})
              \cup (IF last.nullm THEN Range(null_markings) ELSE {})
       /\ NoDuplicates(last.ret)

\* A query of a node whose descendant carries a marking of its own while a
\* global marking is buffered: both are reported.
C7_Witness ==
  /\ last.op = "get_markings"
  /\ last.markable = "incident" /\ last.descendants
  /\ global_markings = <<"red">>
  /\ datamarkings["incident"] = {}
  /\ datamarkings["indicator"] = {"amber"}
  /\ Range(last.ret) = {"red", "amber"}

\* C8: add_marking on the root package raises UnmarkableError in every
\* state, whatever the root already carries.
C8_RootUnmarkable ==
  (last.op = "add_marking" /\ last.markable = Package)
    => last.result = "UnmarkableError"

\* C9: the root is never a key of the field-marking collection, and no
\* add_marking call changes the markings the root carries or reports.
C9_RootUntouched ==
  /\ [](\A i \in DOMAIN field_markings :
          field_markings[i].obj # Package /\ field_markings[i].key # Key(Package))
  /\ [][last'.op = "add_marking"
          => /\ datamarkings'[Package] = datamarkings[Package]
             /\ (last'.markable = Package
                   => get_markings_after(Package)
                        = get_markings(Package, FALSE, FALSE))]_vars

\* C10: the global and null collections never hold a marking twice;
\* add_global(M) with M buffered globally and add_marking(None, M) with M
\* buffered as null raise DuplicateMarkingError and change nothing;
\* add_marking(None, M) touches only the null collection; and
\* remove_marking(None, M) of a buffered null marking removes exactly M.
C10_GlobalNullCollections ==
  /\ [](NoDuplicates(global_markings) /\ NoDuplicates(null_markings))
  /\ [][(last'.op = "add_global" /\ Contains(global_markings, last'.marking))
          => /\ last'.result = "DuplicateMarkingError"
             /\ UNCHANGED <<global_markings, null_markings, field_markings,
                            datamarkings, handling>>]_vars
  /\ [][(last'.op = "add_marking" /\ last'.markable = None)
          => /\ UNCHANGED <<global_markings, field_markings, datamarkings,
                            coerced, handling>>
             /\ IF Contains(null_markings, last'.marking)
                  THEN /\ last'.result = "DuplicateMarkingError"
                       /\ UNCHANGED null_markings
                  ELSE /\ last'.result = "ok"
                       /\ null_markings' =
                            Append(null_markings, last'.marking)]_vars
  /\ [][(/\ last'.op = "remove_marking" /\ last'.markable = None
         /\ Contains(null_markings, last'.marking))
          => /\ last'.result = "ok"
             /\ Range(null_markings') = Range(null_markings) \ {last'.marking}
             /\ Len(null_markings') = Len(null_markings) - 1
             /\ UNCHANGED <<global_markings, field_markings, datamarkings,
                            handling>>]_vars

\* A duplicate add_global has been rejected while a null marking is buffered.
C10_Witness ==
  /\ last.op = "add_global" /\ last.result = "DuplicateMarkingError"
  /\ Contains(global_markings, last.marking)
  /\ null_markings # <<>>

\* C11: no marking reaches a node through two overlapping scopes: a marking
\* is never both in the global collection and in a field entry, nor both in
\* the field entry of a node and, with descendants set, in the field entry
\* of a strict ancestor of that node.
C11_NoOverlappingScopes ==
  \A M \in Markings :
    /\ ~(/\ Contains(global_markings, M)
         /\ \E n \in Nodes \ {Package} : TuplesFor(n, M) > 0)
    /\ \A a \in Nodes \ {Package} :
         Contains(FieldEntry(field_markings, a), <<M, TRUE>>)
           => \A n \in StrictDescendants(a) : TuplesFor(n, M) = 0

\* The call about to be made removes a marking that is buffered in the store.
BufferedRemoval ==
  \/ last'.op = "remove_global" /\ Contains(global_markings, last'.marking)
  \/ /\ last'.op = "remove_marking" /\ last'.markable = None
     /\ Contains(null_markings, last'.marking)
  \/ /\ last'.op = "remove_marking" /\ last'.markable \in Nodes
     /\ Contains(FieldEntry(field_markings, last'.markable),
                 <<last'.marking, last'.descendants>>)

\* C12: add_marking, add_global and removals of buffered markings neither
\* create nor modify a handling container; a step that creates a container
\* or adds an embedded record is a flush or a to_xml.
C12_Buffering ==
  /\ [][(last'.op \in {"add_marking", "add_global"} \/ BufferedRemoval)
          => UNCHANGED <<handling, containers>>]_vars
  /\ [][(\/ containers' # containers
         \/ \E c \in DOMAIN handling : Len(handling'[c]) > Len(handling[c]))
          => last'.op \in {"flush", "to_xml"}]_vars

\* A marking has been added to a node while the header already holds an
\* embedded record from an earlier flush.
C12_Witness ==
  /\ last.op = "add_marking" /\ last.result = "ok"
  /\ last.markable \in Nodes
  /\ field_markings # <<>>
  /\ handling["header"] # <<>>
  /\ "header" \in containers

\* Number of tuples buffered in the field collection.
RECURSIVE FieldTuples(_, _)
FieldTuples(fm, i) ==
  IF i > Len(fm) THEN 0 ELSE Len(fm[i].marks) + FieldTuples(fm, i + 1)

\* Number of records embedded in the handling containers.
Embedded(h) ==
  Len(h["header"]) + Len(h["incident"]) + Len(h["indicator"])

IsPrefix(s, t) == Len(s) <= Len(t) /\ SubSeq(t, 1, Len(s)) = s

\* C13: after a successful flush or to_xml the global, field and null
\* collections are empty; a flush issued right after one adds no record; and
\* a successful flush keeps the records already embedded and adds exactly as
\* many records as are buffered, so it embeds only what was added since the
\* previous flush.
C13_FlushResets ==
  /\ []((last.op \in {"flush", "to_xml"} /\ last.result = "ok")
          => /\ global_markings = <<>>
             /\ field_markings = <<>>
             /\ null_markings = <<>>)
  /\ [][(/\ last.op \in {"flush", "to_xml"} /\ last.result = "ok"
         /\ last'.op \in {"flush", "to_xml"})
          => last'.result = "ok" /\ UNCHANGED <<handling, containers>>]_vars
  /\ [][(last'.op \in {"flush", "to_xml"} /\ last'.result = "ok")
          => /\ \A c \in DOMAIN handling : IsPrefix(handling[c], handling'[c])
             /\ Embedded(handling') =
                  Embedded(handling) + Len(global_markings)
                    + FieldTuples(field_markings, 1) + Len(null_markings)]_vars

\* A successful flush has embedded records and left the store empty.
C13_Witness ==
  /\ last.op = "flush" /\ last.result = "ok"
  /\ handling["header"] # <<>> /\ handling["incident"] # <<>>
  /\ global_markings = <<>> /\ field_markings = <<>> /\ null_markings = <<>>

\* The tree nodes a field marking on n is meant to cover, as XML nodes.
Covered(n, d) ==
  IF d THEN {XmlNode(b) : b \in {n} \cup StrictDescendants(n)}
  ELSE {XmlNode(n)}

\* Positions <<c, j>> of the records that the step has appended.
NewRecords ==
  {p \in (DOMAIN handling) \X (1..MaxOps) :
     /\ p[2] > Len(handling[p[1]])
     /\ p[2] <= Len(handling'[p[1]])}

\* The tree nodes that the target of the new record at p selects.
Selected(p) ==
  get_marked_nodeset(attached', handling'[p[1]][p[2]].cs, p[1])
    \cap {XmlNode(x) : x \in Nodes}

\* C14: for every node n that carries M and every tuple (M, d) buffered in
\* field[n], a successful flush writes exactly one record for M whose target
\* selects n itself (with its descendants when d is set) and no other node.
C14_TargetIsMarkedNode ==
  [][(last'.op \in {"flush", "to_xml"} /\ last'.result = "ok")
       => \A n \in Nodes \ {Package} :
            \A i \in DOMAIN FieldEntry(field_markings, n) :
              LET M == FieldEntry(field_markings, n)[i][1]
                  d == FieldEntry(field_markings, n)[i][2]
              IN  contains_marking(datamarkings, coerced, n, M)
                    => Cardinality(
                         {p \in NewRecords :
                            /\ handling'[p[1]][p[2]].m = M
                            /\ handling'[p[1]][p[2]].cs # EmptyCS
                            /\ Selected(p) = Covered(n, d)}) = 1]_vars

\* Sessions in which the caller also passes a record whose target is set.
NextTargets ==
  \/ \E marking \in Records : add_global(marking)
  \/ \E markable \in Nodes \cup {None}, marking \in Records,
        descendants \in BOOLEAN :
       add_marking(markable, marking, descendants)
  \/ flush
  \/ to_xml

SpecTargets == Init /\ [][NextTargets]_vars

\* The records held in the global, field and null collections.
Buffered ==
  Range(global_markings) \cup Range(null_markings)
    \cup UNION {{field_markings[i].marks[j][1] :
                   j \in DOMAIN field_markings[i].marks} :
                i \in DOMAIN field_markings}

\* C15: every buffered record has an empty target; add_marking and
\* add_global reject a record whose target is set with MarkingPathNotEmpty
\* and change nothing; flush and to_xml leave the caller's records
\* unresolved, so a record that was flushed is never rejected for its target.
C15_BufferedUnresolved ==
  /\ [](\A m \in Buffered : controlled_structure[m] = EmptyCS)
  /\ [][(/\ last'.op \in {"add_marking", "add_global"}
         /\ controlled_structure[last'.marking] # EmptyCS)
          => /\ last'.result = "MarkingPathNotEmpty"
             /\ UNCHANGED <<global_markings, null_markings, field_markings,
                            datamarkings, coerced, handling, containers>>]_vars
  /\ [][last'.op \in {"flush", "to_xml"}
          => UNCHANGED controlled_structure]_vars
  /\ [][(/\ last'.op \in {"add_marking", "add_global"}
         /\ last'.marking \in Markings)
          => last'.result # "MarkingPathNotEmpty"]_vars

\* A record that an earlier flush embedded in the header has been added
\* again and accepted.
C15_Witness ==
  /\ last.op = "add_global" /\ last.result = "ok"
  /\ \E j \in DOMAIN handling["header"] :
       /\ handling["header"][j].m = last.marking
       /\ handling["header"][j].cs = XPATH_GLOBAL_ALL_FIELDS
  /\ Contains(global_markings, last.marking)

\* The shape the target of a field marking on n with flag d is meant to have.
EndsInSelector(cs, n, d) ==
  IF is_attribute(xmlfield[n]) \/ is_content(xmlfield[n])
    THEN Len(cs) = 1 /\ cs[1][Len(cs[1])] = xmlfield[n]
    ELSE IF d
           THEN /\ Len(cs) = 2
                /\ cs[1][Len(cs[1])] = XPATH_AXIS_DESCENDANT_OR_SELF_NODE
                /\ cs[2] = Append(cs[1], XPATH_WILDCARD_ALL_ATTRS)
           ELSE /\ Len(cs) = 1
                /\ cs[1][Len(cs[1])] = XPATH_AXIS_SELF_NODE

\* C16: for every node n that carries M and every tuple (M, d) buffered in
\* field[n], a successful flush writes a record for M whose target ends in
\* self::node() when d is false, ends in descendant-or-self::node() and is
\* unioned with the same path followed by @* when d is true, and ends in the
\* attribute or text selector when n maps to one.
C16_SelfOrDescendantSelector ==
  [][(last'.op \in {"flush", "to_xml"} /\ last'.result = "ok")
       => \A n \in Nodes \ {Package} :
            \A i \in DOMAIN FieldEntry(field_markings, n) :
              LET M == FieldEntry(field_markings, n)[i][1]
                  d == FieldEntry(field_markings, n)[i][2]
              IN  contains_marking(datamarkings, coerced, n, M)
                    => \E p \in NewRecords :
                         /\ handling'[p[1]][p[2]].m = M
                         /\ handling'[p[1]][p[2]].cs # EmptyCS
                         /\ EndsInSelector(handling'[p[1]][p[2]].cs, n, d)]_vars

\* The chain root -> ... -> n, n included.
Chain(n) == entity_path(n) \o <<n>>

\* The entity on the chain of n that is nearest to n and has a handling
\* container; the header of the document root when there is none.
NearestAnchor(n) ==
  IF \E j \in DOMAIN Chain(n) : Chain(n)[j] \in HasHandling
    THEN Chain(n)[CHOOSE j \in DOMAIN Chain(n) :
                    /\ Chain(n)[j] \in HasHandling
                    /\ \A k \in (j + 1)..Len(Chain(n)) :
                         Chain(n)[k] \notin HasHandling]
    ELSE "header"

\* The tree nodes strictly below anchor a on the chain of n, in order.
BelowAnchor(a, n) ==
  IF a = "header" THEN SubSeq(Chain(n), 2, Len(Chain(n)))
  ELSE SubSeq(Chain(n),
              1 + CHOOSE j \in DOMAIN Chain(n) : Chain(n)[j] = a,
              Len(Chain(n)))

\* The path starts at anchor a and has one step for each node below a on the
\* chain of n, followed at most by the node selector.
StartsAtAnchor(path, a, n) ==
  LET start == IF a = "header" THEN XPATH_HEADER_RELATIVE_START
               ELSE XPATH_TLO_RELATIVE_START
      below == BelowAnchor(a, n)
  IN  /\ IsPrefix(start, path)
      /\ Len(path) \in {Len(start) + Len(below), Len(start) + Len(below) + 1}
      /\ \A k \in DOMAIN below :
           path[Len(start) + k].name = xmlfield[below[k]].name

\* C17: for every buffered field marking on node n, a successful flush places
\* its record in the handling container of the entity nearest to n on the
\* chain root -> ... -> n (n included) that has one, and in the header of the
\* document root when no entity on the chain has one; the path starts at that
\* anchor and contains only the steps below it.
C17_NearestAnchor ==
  [][(last'.op \in {"flush", "to_xml"} /\ last'.result = "ok")
       => \A i \in DOMAIN field_markings :
            \A j \in DOMAIN field_markings[i].marks :
              \E p \in NewRecords :
                /\ p[1] = NearestAnchor(field_markings[i].obj)
                /\ handling'[p[1]][p[2]].m = field_markings[i].marks[j][1]
                /\ handling'[p[1]][p[2]].cs # EmptyCS
                /\ StartsAtAnchor(handling'[p[1]][p[2]].cs[1], p[1],
                                  field_markings[i].obj)]_vars

\* The new records for marking M with target cs.
NewRecordsFor(M, cs) ==
  {p \in NewRecords :
     handling'[p[1]][p[2]].m = M /\ handling'[p[1]][p[2]].cs = cs}

\* C18: a successful flush writes, for each buffered global marking, exactly
\* one record with the target //node() | //@*, and for each buffered null
\* marking exactly one record with an empty target; records with either
\* target are written for no other marking and only in the header container
\* of the document root.
C18_GlobalAndNullInHeader ==
  [][(last'.op \in {"flush", "to_xml"} /\ last'.result = "ok")
       => /\ \A M \in Markings :
               /\ Cardinality(NewRecordsFor(M, XPATH_GLOBAL_ALL_FIELDS)) =
                    (IF Contains(global_markings, M) THEN 1 ELSE 0)
               /\ Cardinality(NewRecordsFor(M, EmptyCS)) =
                    (IF Contains(null_markings, M) THEN 1 ELSE 0)
          /\ \A p \in NewRecords :
               handling'[p[1]][p[2]].cs \in {XPATH_GLOBAL_ALL_FIELDS, EmptyCS}
                 => p[1] = "header"]_vars

\* A flush has written a global record and a null record into the header.
C18_Witness ==
  /\ last.op = "flush" /\ last.result = "ok"
  /\ \E j, k \in DOMAIN handling["header"] :
       /\ handling["header"][j].cs = XPATH_GLOBAL_ALL_FIELDS
       /\ handling["header"][k].cs = EmptyCS

\* get_markings(n, descendants, null_markings) in the state after the step.
get_markings_then(n, descendants, nullm) ==
  get_markings_in(global_markings', null_markings', datamarkings', coerced',
                  attached', n, descendants, nullm)

\* Number of records for M with an empty target in the header container.
NullRecords(h, M) ==
  Cardinality({j \in DOMAIN h["header"] :
                 h["header"][j].m = M /\ h["header"][j].cs = EmptyCS})

\* C19 as stated: once add_marking(None, M) has been followed by a successful
\* flush, the document holds exactly one record for M with an empty target
\* and get_markings(n, null_markings=true) includes M for every node n.
C19_NullRoundTrip ==
  [][(/\ last.op = "add_marking" /\ last.markable = None
      /\ last.result = "ok"
      /\ last'.op \in {"flush", "to_xml"} /\ last'.result = "ok")
       => /\ NullRecords(handling, last.marking) = 0
            => NullRecords(handling', last.marking) = 1
          /\ \A n \in Nodes : last.marking \in get_markings_then(n, FALSE, TRUE)
     ]_vars

\* C19 (amended): a null marking M is reported by
\* get_markings(n, null_markings=true) for every node n for as long as it is
\* buffered; a successful flush adds exactly one record for M with an empty
\* target to the header and empties the null collection, after which
\* get_markings(n, null_markings=true) reports what
\* get_markings(n, null_markings=false) reports.
C19_NullUntilFlush ==
  /\ [](\A M \in Markings, n \in Nodes :
          Contains(null_markings, M) => M \in get_markings(n, FALSE, TRUE))
  /\ [][(last'.op = "add_marking" /\ last'.markable = None
         /\ last'.result = "ok")
          => Contains(null_markings', last'.marking)]_vars
  /\ [][(last'.op \in {"flush", "to_xml"} /\ last'.result = "ok")
          => /\ \A M \in Markings :
                  NullRecords(handling', M) =
                    NullRecords(handling, M)
                      + (IF Contains(null_markings, M) THEN 1 ELSE 0)
             /\ \A n \in Nodes, d \in BOOLEAN :
                  get_markings_then(n, d, TRUE) = get_markings_then(n, d, FALSE)
     ]_vars

\* A flush has embedded a null marking that the store no longer reports.
C19_Witness ==
  /\ last.op = "flush" /\ last.result = "ok"
  /\ \E M \in Markings :
       /\ NullRecords(handling, M) = 1
       /\ \A n \in Nodes : M \notin get_markings(n, FALSE, TRUE)

----------------------------------------------------------------------------
\* stixmarx.parse: a container that wraps a parsed document.

\* Where a document embeds a marking: nowhere, as a global record, as a record
\* without a target, or as a record the serializer resolved for a node.
Placements ==
  {[kind |-> k, node |-> Package, d |-> FALSE] :
     k \in {"none", "global", "null"}}
    \cup {[kind |-> "field", node |-> n, d |-> d] :
            n \in Nodes \ {Package}, d \in BOOLEAN}

MarkingOrder == <<"red", "amber">>

\* The markings of MarkingOrder that the document pl embeds with kind k.
RECURSIVE placed(_, _, _)
placed(pl, k, i) ==
  IF i > Len(MarkingOrder) THEN <<>>
  ELSE (IF pl[MarkingOrder[i]].kind = k THEN <<MarkingOrder[i]>> ELSE <<>>)
       \o placed(pl, k, i + 1)

\* The field entries that wrote the field records of the document pl.
RECURSIVE placed_fields(_, _)
placed_fields(pl, i) ==
  IF i > Len(MarkingOrder) THEN <<>>
  ELSE (IF pl[MarkingOrder[i]].kind = "field"
          THEN <<[key |-> Key(pl[MarkingOrder[i]].node),
                  obj |-> pl[MarkingOrder[i]].node,
                  marks |-> << <<MarkingOrder[i],
                                 pl[MarkingOrder[i]].d>> >>]>>
          ELSE <<>>)
       \o placed_fields(pl, i + 1)

\* The embedded records of the document pl.
document_handling(pl) ==
  apply_markings([c \in HasHandling \cup {"header"} |-> <<>>],
                 placed(pl, "global", 1), placed_fields(pl, 1),
                 placed(pl, "null", 1), LateNodes).h

\* The target of the record that embeds marking m in h; empty when h has no
\* record for m.
target_in(h, m) ==
  IF \E c \in DOMAIN h : \E j \in DOMAIN h[c] : h[c][j].m = m
    THEN LET c == CHOOSE c \in DOMAIN h : \E j \in DOMAIN h[c] : h[c][j].m = m
         IN  h[c][CHOOSE j \in DOMAIN h[c] : h[c][j].m = m].cs
    ELSE EmptyCS

\* MarkingContainer.__init__ on the package parse_xml returns for document h:
\* empty collections; every object carries the records that select its source
\* node, and a marked scalar has been replaced by its markable wrapper.
parsed_container(h) ==
  /\ global_markings = <<>>
  /\ null_markings = <<>>
  /\ field_markings = <<>>
  /\ attached = LateNodes
  /\ handling = h
  /\ containers = {c \in DOMAIN h : h[c] # <<>>}
  /\ datamarkings = parse_xml(LateNodes, h)
  /\ coerced = {n \in Scalars : parse_xml(LateNodes, h)[n] # {}}
  /\ controlled_structure =
       [r \in Held |-> IF r = Resolved THEN XPATH_GLOBAL_ALL_FIELDS
                          ELSE target_in(h, r)]
  /\ parsed = None
  /\ alternative_id = <<>>
  /\ last = Call("parse", None, None, FALSE, "ok")
  /\ before = NoSnapshot
  /\ nops = 1

InitParsed ==
  \E pl \in [Markings -> Placements] : parsed_container(document_handling(pl))

\* Removals and clearing on a parsed container.
NextParsed ==
  \/ \E marking \in Markings : remove_global(marking)
  \/ \E markable \in Nodes \cup {None}, marking \in Markings,
        descendants \in BOOLEAN :
       remove_marking(markable, marking, descendants)
  \/ \E markable \in Nodes, descendants \in BOOLEAN :
       clear_markings(markable, descendants)

SpecParsed == InitParsed /\ [][NextParsed]_vars

\* Some strict ancestor of n carries M.
AncestorCarries(n, M) ==
  \E i \in DOMAIN entity_path(n) :
    contains_marking(datamarkings, coerced, entity_path(n)[i], M)

\* Number of embedded records for M, whatever their target.
RecordsFor(h, M) ==
  Cardinality({p \in (DOMAIN h) \X (1..Cardinality(Markings)) :
                 p[2] <= Len(h[p[1]]) /\ h[p[1]][p[2]].m = M})

C22_RemoveGlobal ==
  [][last'.op = "remove_global"
       => LET M == last'.marking
          IN  IF Contains(global_markings, M)
                THEN /\ last'.result = "ok"
                     /\ global_markings' = RemoveFirst(global_markings, M)
                     /\ UNCHANGED <<null_markings, field_markings,
                                    datamarkings, coerced, handling>>
              ELSE IF M \in datamarkings[Package]
                THEN /\ last'.result = "ok"
                     /\ \A n \in Nodes :
                          InTree(attached, n) => M \notin datamarkings'[n]
                     /\ RecordsFor(handling', M) = RecordsFor(handling, M) - 1
                     /\ UNCHANGED <<global_markings, null_markings,
                                    field_markings>>
              ELSE /\ last'.result = "MarkingNotFoundError"
                   /\ UNCHANGED <<global_markings, null_markings,
                                  field_markings, datamarkings, coerced,
                                  handling>>]_vars

\* Sessions in which the caller also passes a bare list as the markable and
\* a value that is not a marking record as the marking.
NextArguments ==
  \/ \E marking \in {"red", NotAMarking} : add_global(marking)
  \/ \E marking \in {"red", NotAMarking} : remove_global(marking)
  \/ \E markable \in Nodes \cup {None, RawList},
        marking \in {"red", NotAMarking}, descendants \in BOOLEAN :
       add_marking(markable, marking, descendants)
  \/ \E markable \in Nodes \cup {None, RawList},
        marking \in {"red", NotAMarking}, descendants \in BOOLEAN :
       remove_marking(markable, marking, descendants)
  \/ \E markable \in Nodes \cup {RawList}, descendants \in BOOLEAN :
       clear_markings(markable, descendants)
  \/ \E markable \in Nodes \cup {None, RawList},
        marking \in {"red", NotAMarking}, descendants \in BOOLEAN :
       is_marked_call(markable, marking, descendants)

SpecArguments == Init /\ [][NextArguments]_vars

\* The nodes clear_markings(n, d) is meant to clear.
Cleared(n, d) ==
  IF d THEN {n} \cup {b \in StrictDescendants(n) : InTree(attached, b)}
  ELSE {n}

\* C23: clear_markings(n, d) empties the marking set of n (and of every
\* descendant of n when d is set) and changes no other node and nothing in
\* the store; on a node without markings it changes nothing; for an argument
\* that is not markable it raises UnmarkableError and changes nothing;
\* afterwards get_markings(n) is the set of buffered global markings.
C23_ClearMarkings ==
  [][last'.op = "clear_markings"
       => LET n == last'.markable
              d == last'.descendants
          IN  /\ UNCHANGED <<global_markings, null_markings, field_markings,
                             coerced, handling, containers>>
              /\ IF n \notin Nodes
                   THEN /\ last'.result = "UnmarkableError"
                        /\ UNCHANGED datamarkings
                   ELSE /\ last'.result = "ok"
                        /\ \A x \in Nodes :
                             datamarkings'[x] =
                               IF x \in Cleared(n, d) THEN {}
                               ELSE datamarkings[x]
                        /\ (\A x \in Cleared(n, d) : datamarkings[x] = {})
                             => UNCHANGED datamarkings
                        /\ get_markings_then(n, FALSE, FALSE) =
                             Range(global_markings)]_vars

\* A clearing with descendants has emptied a marked node and a marked
\* descendant while a global marking stays buffered.
C23_Witness ==
  /\ last.op = "clear_markings" /\ last.result = "ok" /\ last.descendants
  /\ last.markable = "incident"
  /\ \A x \in {"incident", "incident_title", "indicator"} :
       datamarkings[x] = {}
  /\ \E i \in DOMAIN field_markings :
       /\ field_markings[i].obj = "incident"
       /\ field_markings[i].marks = << <<"red", TRUE>> >>
  /\ global_markings # <<>>

\* C24: add_marking, add_global, remove_marking, remove_global and is_marked
\* raise UnknownMarkingError for a marking argument that is not a marking
\* record, whatever the node argument is, and change nothing.
C24_MarkingValidatedFirst ==
  [][(/\ last'.op \in {"add_marking", "add_global", "remove_marking",
                       "remove_global", "is_marked"}
      /\ last'.marking = NotAMarking)
       => /\ last'.result = "UnknownMarkingError"
          /\ UNCHANGED <<global_markings, null_markings, field_markings,
                         datamarkings, coerced, handling, containers>>]_vars

\* C25: a flush or to_xml that raises removes nothing from the global, field
\* and null collections.
C25_FailedFlushKeepsBuffers ==
  [][(last'.op \in {"flush", "to_xml"} /\ last'.result # "ok")
       => UNCHANGED <<global_markings, field_markings, null_markings>>]_vars

\* A flush has raised while global, field and null markings are buffered.
C25_Witness ==
  /\ last.op = "flush" /\ last.result = "SerializerFieldNotFoundError"
  /\ global_markings # <<>> /\ field_markings # <<>>

\* C26: after a flush or to_xml that raises, no marking that this call has
\* embedded in the tree is still buffered in the store.
C26_NoHalfAppliedRecord ==
  [][(last'.op \in {"flush", "to_xml"} /\ last'.result # "ok")
       => \A p \in NewRecords : handling'[p[1]][p[2]].m \notin Buffered']_vars

\* The field entries that still hold a marking and whose object is not
\* reachable from the package.
Unreachable ==
  {i \in DOMAIN field_markings :
     field_markings[i].marks # <<>> /\ ~InTree(attached, field_markings[i].obj)}

Selecting(x) ==
  {p \in (DOMAIN handling) \X (1..MaxOps) :
     /\ p[2] <= Len(handling[p[1]])
     /\ handling[p[1]][p[2]].cs # EmptyCS
     /\ x \in get_marked_nodeset(attached, handling[p[1]][p[2]].cs, p[1])}

\* C28: the index built from a document that the container has written maps
\* a node x to a marking exactly when a record of that marking has a
\* non-empty target that selects x, and two attributes with equal values
\* under different parents have different keys.
C28_IndexIsSelection ==
  /\ last.op \in {"flush", "to_xml"}
       => \A x \in XmlNodes(attached) :
            markingmap(attached, handling, x)
              = {handling[p[1]][p[2]].m : p \in Selecting(x)}
  /\ \A x, y \in {z \in XmlNodes(attached) : XmlIsAttribute(z)} :
       (XmlValue(x) = XmlValue(y) /\ XmlParent(x) # XmlParent(y))
         => make_key(x) # make_key(y)

\* The document holds a record that selects the id of the indicator and not
\* the equal id of the incident, and a record without a target.
C28_Witness ==
  /\ last.op \in {"flush", "to_xml"}
  /\ \E p \in Selecting(XmlNode("indicator_id")) :
       /\ p \notin Selecting(<<"attr", "incident">>)
       /\ handling[p[1]][p[2]].m
            \notin markingmap(attached, handling, <<"attr", "incident">>)
  /\ \E c \in DOMAIN handling : \E j \in DOMAIN handling[c] :
       handling[c][j].cs = EmptyCS

----------------------------------------------------------------------------
\* parser.py: the attach pass on a list-valued scalar field.

MaxItems == 3

\* The serialized nodes of the list that the index holds, in document order
\* (`marked` in _set_list_field_marking).
marked(valuelist) == SelectSeq(valuelist, LAMBDA v : v.xml # {})

\* The inner loop of _set_list_field_marking on one item: api.add_markings
\* with the markings of every marked serialized node of the list.
RECURSIVE add_markings_of(_, _, _)
add_markings_of(value, xmlnodes, k) ==
  IF k > Len(xmlnodes) THEN value
  ELSE add_markings_of(
         [value EXCEPT !.marks = @ \cup xmlnodes[k].xml, !.cast = TRUE],
         xmlnodes, k + 1)

\* MarkingParser._set_list_field_marking
set_list_field_marking(valuelist) ==
  [idx \in DOMAIN valuelist |->
     add_markings_of(valuelist[idx], marked(valuelist), 1)]

\* MarkingParser._process_attrs on the indicator, list branch.
process_attrs ==
  /\ nops < MaxOps
  /\ nops' = nops + 1
  /\ alternative_id' = set_list_field_marking(alternative_id)
  /\ last' = Call("parse", None, None, FALSE, "ok")
  /\ UNCHANGED <<global_markings, null_markings, field_markings, datamarkings,
                 coerced, attached, handling, containers,
                 controlled_structure, parsed, before>>

\* A document whose indicator has up to MaxItems Alternative_ID elements, any
\* of them selected by the records of the document, before the attach pass.
InitAttach ==
  /\ \E len \in 1..MaxItems :
       alternative_id \in
         [1..len -> [value : {"foo"}, xml : SUBSET Markings, marks : {{}},
                     cast : {FALSE}]]
  /\ global_markings = <<>>
  /\ null_markings = <<>>
  /\ field_markings = <<>>
  /\ datamarkings = [n \in Nodes |-> {}]
  /\ coerced = {}
  /\ attached = {}
  /\ handling = [c \in HasHandling \cup {"header"} |-> <<>>]
  /\ containers = {}
  /\ controlled_structure =
       [r \in Held |-> IF r = Resolved THEN XPATH_GLOBAL_ALL_FIELDS
                          ELSE EmptyCS]
  /\ parsed = None
  /\ last = Call("new", None, None, FALSE, "ok")
  /\ before = NoSnapshot
  /\ nops = 0

NextAttach == process_attrs

SpecAttach == InitAttach /\ [][NextAttach]_vars

\* C29: in the attach pass an item of a list-valued scalar field receives
\* exactly the markings under which its own serialized node is indexed, and
\* an item whose node is not indexed stays unmarked and unconverted.
C29_ItemsMatchedOneToOne ==
  [][last'.op = "parse"
       => /\ DOMAIN alternative_id' = DOMAIN alternative_id
          /\ \A idx \in DOMAIN alternative_id :
               /\ alternative_id'[idx].marks
                    = alternative_id[idx].marks \cup alternative_id[idx].xml
               /\ alternative_id[idx].xml = {}
                    => alternative_id'[idx] = alternative_id[idx]]_vars

----------------------------------------------------------------------------
\* Sessions on a parsed container in which the caller adds a record of its
\* own whose payload equals that of a record of the document. The records of
\* the document that reach a node carry a target; the caller's record has
\* none, so the two differ in controlled_structure.
NextCopies ==
  \/ add_global(Copy)
  \/ \E markable \in Nodes \cup {None}, descendants \in BOOLEAN :
       add_marking(markable, Copy, descendants)

SpecCopies == InitParsed /\ [][NextCopies]_vars

\* C31: add_global, add_marking(None, .) and add_marking(n, .) raise
\* DuplicateMarkingError when a record of equal payload is already in global,
\* in null, or effective on n, also when it is another record object.
C31_DuplicateByPayload ==
  [][/\ (/\ last'.op = "add_global"
         /\ \E i \in DOMAIN global_markings :
              Payload(global_markings[i]) = Payload(last'.marking))
        => last'.result = "DuplicateMarkingError"
     /\ (/\ last'.op = "add_marking" /\ last'.markable = None
         /\ \E i \in DOMAIN null_markings :
              Payload(null_markings[i]) = Payload(last'.marking))
        => last'.result = "DuplicateMarkingError"
     /\ (/\ last'.op = "add_marking" /\ last'.markable \in Nodes
         /\ \E r \in get_markings(last'.markable, FALSE, FALSE) :
              Payload(r) = Payload(last'.marking))
        => last'.result = "DuplicateMarkingError"]_vars

----------------------------------------------------------------------------
\* serializer.py: the positional predicate of an item of a list of strings.

\* MarkingSerializer._find_index_of_seq(object_, to_find) for the item at
\* position idx of the list field val of object_: val.index(to_find) + 1,
\* the position of the first item equal to it.
find_index_of_item(val, idx) ==
  IF \E k \in DOMAIN val : val[k].value = val[idx].value
    THEN CHOOSE k \in DOMAIN val :
           /\ val[k].value = val[idx].value
           /\ \A j \in 1..(k - 1) : val[j].value # val[idx].value
    ELSE 1

\* MarkingSerializer._resolve_xpath_predicate for the last step of the path
\* of the item at idx; the item's position and the predicate are kept in
\* last.ret.
resolve_xpath_predicate(idx) ==
  /\ nops < MaxOps
  /\ nops' = nops + 1
  /\ last' = [Call("resolve_xpath_predicate", None, None, FALSE, "ok")
                EXCEPT !.ret = <<idx, find_index_of_item(alternative_id, idx)>>]
  /\ UNCHANGED <<global_markings, null_markings, field_markings, datamarkings,
                 coerced, attached, handling, containers,
                 controlled_structure, parsed, alternative_id, before>>

\* An indicator whose alternative_id holds up to MaxItems strings, equal or
\* not.
InitPredicate ==
  /\ \E len \in 1..MaxItems :
       alternative_id \in
         [1..len -> [value : {"foo", "bar"}, xml : {{}}, marks : {{}},
                     cast : {FALSE}]]
  /\ global_markings = <<>>
  /\ null_markings = <<>>
  /\ field_markings = <<>>
  /\ datamarkings = [n \in Nodes |-> {}]
  /\ coerced = {}
  /\ attached = {}
  /\ handling = [c \in HasHandling \cup {"header"} |-> <<>>]
  /\ containers = {}
  /\ controlled_structure =
       [r \in Held |-> IF r = Resolved THEN XPATH_GLOBAL_ALL_FIELDS
                       ELSE EmptyCS]
  /\ parsed = None
  /\ last = Call("new", None, None, FALSE, "ok")
  /\ before = NoSnapshot
  /\ nops = 0

NextPredicate == \E idx \in DOMAIN alternative_id : resolve_xpath_predicate(idx)

SpecPredicate == InitPredicate /\ [][NextPredicate]_vars

\* C32: the positional predicate of a step is the 1-based position, in its
\* list field, of the very child on the chain to the marked node, also when
\* the list holds items of equal value.
C32_PredicateIsOwnPosition ==
  [][last'.op = "resolve_xpath_predicate"
       => last'.ret[2] = last'.ret[1]]_vars

\* Something is buffered that the serializer places in the header of the
\* package: a global marking, a null marking, or a field marking of an object
\* with no entity that has a handling container on its chain.
NeedsHeader ==
  \/ global_markings # <<>>
  \/ null_markings # <<>>
  \/ \E i \in DOMAIN field_markings :
       /\ field_markings[i].marks # <<>>
       /\ \A j \in DOMAIN Chain(field_markings[i].obj) :
            Chain(field_markings[i].obj)[j] \notin HasHandling

\* C33: flush and to_xml create the header of the package and its handling
\* container only when a global marking, a null marking or a field marking
\* without an entity anchor is buffered, and then a successful run does
\* create it; otherwise the header stays absent or unchanged.
C33_HeaderOnlyWhenNeeded ==
  [][last'.op \in {"flush", "to_xml"}
       => /\ ~NeedsHeader
               => /\ handling'["header"] = handling["header"]
                  /\ ("header" \in containers') = ("header" \in containers)
          /\ (NeedsHeader /\ last'.result = "ok")
               => /\ "header" \in containers'
                  /\ handling'["header"] # handling["header"]]_vars

\* A flush has written a field marking to the handling of an entity and the
\* package still has no header.
C33_Witness ==
  /\ last.op = "flush" /\ last.result = "ok"
  /\ "header" \notin containers
  /\ handling["incident"] # <<>>

----------------------------------------------------------------------------
\* Walks of the tree while nodes are added and marked.
NextWalk ==
  \/ \E entity \in Nodes : iterwalk_call(entity)
  \/ \E node \in LateNodes : add_observable(node)
  \/ \E markable \in Nodes, marking \in Markings :
       add_marking(markable, marking, FALSE)

SpecWalk == Init /\ [][NextWalk]_vars

C35_StoreAndNodesAgree ==
  \A i \in DOMAIN field_markings :
    \A t \in DOMAIN field_markings[i].marks :
      contains_marking(datamarkings, coerced, field_markings[i].obj,
                       field_markings[i].marks[t][1])

\* C36: an add_marking that raises DuplicateMarkingError leaves the global,
\* field and null collections and the marking set of every node as they were.
C36_DuplicateChangesNothing ==
  [][(last'.op = "add_marking" /\ last'.result = "DuplicateMarkingError")
       => UNCHANGED <<global_markings, field_markings, null_markings,
                      datamarkings>>]_vars

\* C37 as stated: a successful flush leaves get_markings(n, descendants,
\* null_markings) unchanged for every node n and both values of each flag.
C37_FlushKeepsQueries ==
  [][(last'.op = "flush" /\ last'.result = "ok")
       => \A n \in Nodes, d \in BOOLEAN, nullm \in BOOLEAN :
            get_markings_then(n, d, nullm) = get_markings(n, d, nullm)]_vars

\* C37 (amended): a successful flush leaves the markings attached to the nodes
\* as they were, so get_markings(n, descendants, null_markings) afterwards is
\* the node's own markings, with those of its descendants when asked for,
\* for either value of null_markings; the global and null markings that were
\* buffered are no longer reported.
C37_FlushKeepsNodeMarkings ==
  [][(last'.op = "flush" /\ last'.result = "ok")
       => \A n \in Nodes, d \in BOOLEAN, nullm \in BOOLEAN :
            get_markings_then(n, d, nullm) =
              get_markings_in(<<>>, <<>>, datamarkings, coerced, attached,
                              n, d, nullm)]_vars

\* A flush has embedded a global marking that a node carrying a marking of
\* its own no longer reports.
C37_Witness ==
  /\ last.op = "flush" /\ last.result = "ok"
  /\ \E n \in Nodes, j \in DOMAIN handling["header"] :
       /\ get_markings(n, FALSE, TRUE) # {}
       /\ handling["header"][j].cs = XPATH_GLOBAL_ALL_FIELDS
       /\ handling["header"][j].m \notin get_markings(n, TRUE, TRUE)

\* C38: no handling container holds two embedded records for the same marking
\* with the same target.
C38_NoDuplicateRecord ==
  \A c \in DOMAIN handling :
    \A j, k \in DOMAIN handling[c] :
      (handling[c][j].m = handling[c][k].m
         /\ handling[c][j].cs = handling[c][k].cs) => j = k
====
